---- MODULE Spec2Model ----
(***************************************************************************)
(* A model of src/progaomme.py: the CET4Spider page scraper.               *)
(*                                                                         *)
(* Text is a sequence of tokens.  A token is a TLA+ string standing for a  *)
(* run of characters of the Python string: a word, a digit, a literal of   *)
(* the source (the Chinese literals are written with ASCII names, their    *)
(* length in characters is given by CharLen), a markup tag, or one         *)
(* whitespace character (" " and "\n").  An f-string is the concatenation  *)
(* of the token sequences of its parts.                                    *)
(*                                                                         *)
(* A Python call that may raise is an operator returning a record          *)
(* [raised, val]: raised = TRUE carries the exception's message in val.    *)
(* try/except is an IF on the raised field.                                *)
(***************************************************************************)
EXTENDS Integers, Sequences, FiniteSets, TLC

VARIABLES
    \* a call of _process_fill_blank
    fb_pc, fb_items, fb_out,
    \* a call of _extract_module or of _extract_paragraph_container
    ex_pc, ex_root, ex_name, ex_out,
    \* crawl_single_paper: the position in the call, its parameters and locals
    pc, year, month, set_count, driver, full_container, exc, result,
    additional_paragraphs, writing, section_a, section_b, section_c,
    \* what the call did: driver.quit() calls, extractor calls in order, log
    \* records, and what open() did to the output file ("no": not called)
    quits, calls, log, opened,
    \* the files under the output directory, and the directories
    fs, dirs,
    \* history: per request, the document of its last successful run, and the
    \* requests whose file a failed write has truncated since
    last, damaged

fvars == <<fb_pc, fb_items, fb_out>>
xvars == <<ex_pc, ex_root, ex_name, ex_out>>
locals == <<year, month, set_count, driver, full_container, exc, result,
            additional_paragraphs, writing, section_a, section_b, section_c>>
ovars == <<pc, locals, quits, calls, log, opened, fs, dirs, last, damaged>>
vars == <<fvars, xvars, ovars>>

(***************************************************************************)
(* Bounds of the model.                                                    *)
(***************************************************************************)
MaxItems == 3
MaxParas == 1

(***************************************************************************)
(* Results of calls: a value or an exception.                              *)
(***************************************************************************)
Ok(v) == [raised |-> FALSE, val |-> v]
Raise(msg) == [raised |-> TRUE, val |-> msg]

\* the variables of a specification that models other calls stay idle
IdleFill == fb_pc = "idle" /\ fb_items = <<>> /\ fb_out = Ok(<<>>)
EmptyRoot == [mods |-> <<>>, loose |-> <<>>, stale |-> FALSE]
NoResult == [kind |-> "none", text |-> <<>>]
IdleExtract ==
    /\ ex_pc = "idle"
    /\ ex_root = EmptyRoot
    /\ ex_name = <<>>
    /\ ex_out = Ok(<<>>)
\* line 257 and the locals not yet assigned
FreshLocals ==
    /\ driver = "None"
    /\ full_container = EmptyRoot
    /\ exc = ""
    /\ result = NoResult
    /\ additional_paragraphs = <<>>
    /\ writing = <<>>
    /\ section_a = <<>>
    /\ section_b = <<>>
    /\ section_c = <<>>
IdleCrawl ==
    /\ pc = "idle"
    /\ year = 0 /\ month = 0 /\ set_count = 0
    /\ FreshLocals
    /\ quits = 0
    /\ calls = <<>>
    /\ log = <<>>
    /\ opened = "no"
    /\ fs = <<>>
    /\ dirs = {}
    /\ last = <<>>
    /\ damaged = {}

(***************************************************************************)
(* Text.                                                                   *)
(***************************************************************************)
NL == "\n"
SP == " "
Whitespace == {NL, SP}

\* Literals of the source that are not ASCII, and their lengths in characters.
LB == "LB"                      \* the opening bracket of a label
RB == "RB"                      \* the closing bracket of a label
FAILED == "extraction-failed:"  \* the five characters after the name in a failure label
BODY == "body-content"          \* the four characters of the body heading
OPTIONS == "options/word-bank"  \* the five characters of the options heading
FILL == "[fill]"                \* the four characters of the suffix of a block with an input
CONTENT == "content"            \* the two characters appended to a module's name
ADDITIONAL == "additional-paragraph-content"    \* the six characters of the sweep's name

CharLen(tok) ==
    CASE tok = LB -> 1
      [] tok = RB -> 1
      [] tok = FAILED -> 5
      [] tok = BODY -> 4
      [] tok = OPTIONS -> 5
      [] tok = FILL -> 4
      [] tok = CONTENT -> 2
      [] tok = ADDITIONAL -> 6
      [] OTHER -> Len(tok)

RECURSIVE TextLen(_)
TextLen(t) == IF t = <<>> THEN 0 ELSE CharLen(Head(t)) + TextLen(Tail(t))

RECURSIVE LStrip(_)
LStrip(t) ==
    IF t = <<>> THEN <<>>
    ELSE IF Head(t) \in Whitespace THEN LStrip(Tail(t)) ELSE t

RECURSIVE RStrip(_)
RStrip(t) ==
    IF t = <<>> THEN <<>>
    ELSE IF t[Len(t)] \in Whitespace THEN RStrip(SubSeq(t, 1, Len(t) - 1)) ELSE t

\* str.strip(): leading and trailing whitespace removed
Strip(t) == RStrip(LStrip(t))

RECURSIVE Concat(_)
Concat(ts) == IF ts = <<>> THEN <<>> ELSE Head(ts) \o Concat(Tail(ts))

\* sep.join(ts)
RECURSIVE Join(_, _)
Join(sep, ts) ==
    IF ts = <<>> THEN <<>>
    ELSE IF Len(ts) = 1 THEN ts[1]
    ELSE ts[1] \o sep \o Join(sep, Tail(ts))

RECURSIVE Count(_, _)
Count(tok, t) ==
    IF t = <<>> THEN 0
    ELSE (IF Head(t) = tok THEN 1 ELSE 0) + Count(tok, Tail(t))

\* t has s as a contiguous part
Contains(t, s) ==
    \E i \in 1..(Len(t) - Len(s) + 1) : SubSeq(t, i, i + Len(s) - 1) = s

SeqUpTo(S, n) == UNION {[1..k -> S] : k \in 0..n}

(***************************************************************************)
(* Markup of a paragraph (element.get_attribute('outerHTML')).             *)
(***************************************************************************)
SpanMx == "<span class=mx-1 inline-block>"
SpanGray == "<span class=text-gray-500>"
SpanEnd == "</span>"
InputAttr == "<input type=text>"    \* an input tag with attributes
InputBare == "<input>"              \* an input tag without any attribute
POpen == "<p>"
PClose == "</p>"
BOpen == "<b>"
BClose == "</b>"
Tags == {SpanMx, SpanGray, SpanEnd, InputAttr, InputBare, POpen, PClose, BOpen, BClose}
Digits == {"0", "1", "2", "3", "4", "5", "6", "7", "8", "9"}
Dot == "."
Blank == "_"

\* the longest run of digits of h starting at position i (\d+ is greedy)
RECURSIVE DigitRun(_, _)
DigitRun(h, i) ==
    IF i <= Len(h) /\ h[i] \in Digits THEN <<h[i]>> \o DigitRun(h, i + 1) ELSE <<>>

\* The pattern of line 76 matched at position i of h: the number of tokens
\* matched (0 when it does not match here).
MatchAt(h, i) ==
    LET Rest(n, j) ==       \* n digits matched, the dot expected at j
            IF /\ n > 0
               /\ j + 3 <= Len(h)
               /\ h[j] = Dot
               /\ h[j + 1] = SpanEnd
               /\ h[j + 2] = InputAttr
               /\ h[j + 3] = SpanEnd
            THEN n + 6
            ELSE 0
        After(n) == Rest(n, i + 2 + n)
    IN  IF i + 1 <= Len(h) /\ h[i] = SpanMx /\ h[i + 1] = SpanGray
        THEN After(Len(DigitRun(h, i + 2)))
        ELSE 0

\* re.sub with count=1: only the first match replaced
RECURSIVE ReSubFirst(_, _)
ReSubFirst(h, i) ==
    IF i > Len(h) THEN <<>>
    ELSE LET Step(n) ==
                 IF n > 0
                 THEN DigitRun(h, i + 2) \o <<Dot, Blank, SP>> \o SubSeq(h, i + n, Len(h))
                 ELSE <<h[i]>> \o ReSubFirst(h, i + 1)
         IN  Step(MatchAt(h, i))

\* re.sub(pattern, r'\1._ ', html): leftmost non-overlapping matches replaced
RECURSIVE ReSub(_, _)
ReSub(h, i) ==
    IF i > Len(h) THEN <<>>
    ELSE LET Step(n) ==
                 IF n > 0
                 THEN DigitRun(h, i + 2) \o <<Dot, Blank, SP>> \o ReSub(h, i + n)
                 ELSE <<h[i]>> \o ReSub(h, i + 1)
         IN  Step(MatchAt(h, i))

\* BeautifulSoup(html).get_text(): the text nodes, the tags dropped
RECURSIVE GetText(_)
GetText(h) ==
    IF h = <<>> THEN <<>>
    ELSE (IF Head(h) \in Tags THEN <<>> ELSE <<Head(h)>>) \o GetText(Tail(h))

StaleMsg == "Message: stale element reference"

\* _process_fill_blank(element); element = [html, stale]: the markup of the
\* paragraph, and whether the reference is stale (get_attribute raises)
ProcessFillBlank(element) ==
    IF element.stale THEN Raise(StaleMsg)
    ELSE LET html == element.html
             processed_html == ReSub(html, 1)
         IN  Ok(Strip(GetText(processed_html)))

\* WebElement.text of a paragraph: its rendered text
ElementText(html) == Strip(GetText(html))

(***************************************************************************)
(* The page, as far as the queries of the extractors see it.               *)
(*                                                                         *)
(*   block          div.border-b.pb-*: p is the text of its first <p>, or  *)
(*                  (hasP: it has one); input: it holds an <input>         *)
(*   para container div.space-y-*: textLeft tells whether its class also   *)
(*                  has text-left; blocks are its div.border-b.pb-*        *)
(*                  descendants, paras the texts of its <p> descendants    *)
(*   content        div "mb-6 space-y-4 text-left" of a module: ps are its *)
(*                  <p> descendants (markup)                               *)
(*   module         div.mb-8 holding the h3 title: intros are the texts of *)
(*                  its h3 "mb-4 text-left text-sm text-gray-600", subs    *)
(*                  its other div.space-y-* descendants, grid the texts of *)
(*                  the div "flex items-start" of its div.grid.gap-4       *)
(*   root           the main content container: its modules and the        *)
(*                  div.space-y-* outside every module                     *)
(*                                                                         *)
(* stale = TRUE: the element reference went stale, every query on it       *)
(* raises StaleElementReferenceException.                                  *)
(* A block without <p> has hasP = FALSE, a module without content container *)
(* content.present = FALSE, a module without grid grid.present = FALSE.    *)
(***************************************************************************)
NoSuchElementMsg == "Message: no such element: Unable to locate element"

\* the content container of a module is itself a div whose class contains
\* 'space-y-' and 'text-left': the paragraph-container queries find it
\* (reading the text of a stale paragraph raises, as a stale container does)
AsParaContainer(content) ==
    [textLeft |-> TRUE, stale |-> \E i \in 1..Len(content.ps) : content.ps[i].stale,
     blocks |-> <<>>,
     paras |-> [i \in 1..Len(content.ps) |-> ElementText(content.ps[i].html)]]

\* the div.space-y-* descendants of a module, in document order
ModuleParaContainers(m) ==
    (IF m.content.present THEN <<AsParaContainer(m.content)>> ELSE <<>>) \o m.subs

IsRoot(el) == "mods" \in DOMAIN el

\* container.find_elements(".//div[contains(@class, 'space-y-')]")
ParaContainersIn(el) ==
    IF IsRoot(el)
    THEN Concat([i \in 1..Len(el.mods) |-> ModuleParaContainers(el.mods[i])]) \o el.loose
    ELSE ModuleParaContainers(el)

IsTextLeft(c) == c.textLeft

(***************************************************************************)
(* _extract_paragraph_container                                            *)
(***************************************************************************)
\* lines 131-135: the paragraphs of a container without blocks
RECURSIVE ParagraphLines(_)
ParagraphLines(paras) ==
    IF paras = <<>> THEN <<>>
    ELSE LET Line(paragraph_text) ==
                 IF paragraph_text # <<>> THEN paragraph_text \o <<NL>> ELSE <<>>
         IN  Line(Strip(Head(paras))) \o ParagraphLines(Tail(paras))

\* lines 140-158: one block; a block without <p> raises inside the inner try
\* and contributes nothing
BlockLine(block) ==
    LET Line(paragraph_text, has_input) ==
            IF paragraph_text # <<>>
            THEN paragraph_text \o (IF has_input THEN <<SP, FILL>> ELSE <<>>) \o <<NL>>
            ELSE <<>>
    IN  IF ~block.hasP THEN <<>> ELSE Line(Strip(block.p), block.input)

RECURSIVE BlockLines(_)
BlockLines(blocks) ==
    IF blocks = <<>> THEN <<>> ELSE BlockLine(Head(blocks)) \o BlockLines(Tail(blocks))

\* lines 119-158: the loop over the paragraph containers; a stale container
\* raises from the query of line 123
RECURSIVE ContainerLoop(_)
ContainerLoop(pcs) ==
    LET Then(here, rest) == IF rest.raised THEN rest ELSE Ok(here \o rest.val)
        Body(para_container) ==
            IF para_container.stale THEN Raise(StaleMsg)
            ELSE Then(IF para_container.blocks = <<>>
                      THEN ParagraphLines(para_container.paras)
                      ELSE BlockLines(para_container.blocks),
                      ContainerLoop(Tail(pcs)))
    IN  IF pcs = <<>> THEN Ok(<<>>) ELSE Body(Head(pcs))

\* lines 100-111: the primary pattern, and the looser one when it finds nothing
FindParagraphContainers(container) ==
    LET Pick(all, primary) == IF primary # <<>> THEN primary ELSE all
        Query(all) == Pick(all, SelectSeq(all, IsTextLeft))
    IN  Query(ParaContainersIn(container))

\* the body without the early return of lines 113-115
ParagraphContainerBodyNoEarlyReturn(container, container_name) ==
    LET Result(loop) ==
            IF loop.raised THEN loop
            ELSE Ok(<<LB>> \o container_name \o <<RB, NL>> \o loop.val \o <<NL>>)
    IN  IF container.stale THEN Raise(StaleMsg)
        ELSE Result(ContainerLoop(FindParagraphContainers(container)))

\* lines 99-162: the body of the try
ParagraphContainerBody(container, container_name) ==
    LET Result(loop) ==
            IF loop.raised THEN loop
            ELSE Ok(<<LB>> \o container_name \o <<RB, NL>> \o loop.val \o <<NL>>)
        Found(paragraph_containers) ==
            IF paragraph_containers = <<>> THEN Ok(<<>>)
            ELSE Result(ContainerLoop(paragraph_containers))
    IN  IF container.stale THEN Raise(StaleMsg)
        ELSE Found(FindParagraphContainers(container))

\* f"[{name} extraction failed: {e}]\n\n" (lines 166 and 235)
FailureLabel(name, e) == <<LB>> \o name \o <<FAILED, e, RB, NL, NL>>

\* the extractor without its try/except
ExtractParagraphContainerUnguarded(container, container_name) ==
    ParagraphContainerBody(container, container_name)

\* lines 85-166
ExtractParagraphContainer(container, container_name) ==
    LET Try(body) ==
            IF body.raised THEN Ok(FailureLabel(container_name, body.val)) ELSE body
    IN  Try(ParagraphContainerBody(container, container_name))

(***************************************************************************)
(* _extract_module                                                         *)
(***************************************************************************)
\* container.find_element(... h3 ... text()='{module_name}'): the first module
\* of that title
FindModule(container, module_name) ==
    LET First(hits) ==
            IF hits = {} THEN Raise(NoSuchElementMsg)
            ELSE Ok(container.mods[CHOOSE i \in hits : \A j \in hits : i <= j])
    IN  IF container.stale THEN Raise(StaleMsg)
        ELSE First({i \in 1..Len(container.mods) : container.mods[i].title = module_name})

\* lines 199-201: the paragraphs of the content container, normalized
ProcessParagraphs(content_paragraphs) ==
    LET Joined(processed) ==
            IF \E i \in 1..Len(processed) : processed[i].raised THEN Raise(StaleMsg)
            ELSE Ok(Join(<<NL>>, [i \in 1..Len(processed) |-> processed[i].val])
                    \o <<NL, NL>>)
    IN  Joined([i \in 1..Len(content_paragraphs) |-> ProcessFillBlank(content_paragraphs[i])])

\* the body text without the inner try/except of lines 193-205
ModuleContentUnguarded(module_container, module_name) ==
    IF ~module_container.content.present THEN Raise(NoSuchElementMsg)
    ELSE ProcessParagraphs(module_container.content.ps)

\* lines 192-205: the body text, with its own try/except
ModuleContent(module_container, module_name) ==
    LET Try(standard) ==
            IF standard.raised
            THEN ExtractParagraphContainer(module_container, <<module_name, CONTENT>>)
            ELSE standard
    IN  Try(IF ~module_container.content.present THEN Raise(NoSuchElementMsg)
            ELSE ProcessParagraphs(module_container.content.ps))

\* lines 208-220: the options, with their own try/except
ModuleOptions(module_container) ==
    IF ~module_container.grid.present THEN <<>>
    ELSE <<LB, OPTIONS, RB, NL>> \o Join(<<NL>>, module_container.grid.options)
         \o <<NL, NL>>

\* lines 178-225: the module found, its text is assembled
ModuleText(module_container, module_name) ==
    LET Assemble(title, intro_text, content_text, options_text) ==
            IF content_text.raised THEN content_text
            ELSE Ok(title \o <<NL>> \o intro_text \o <<LB, BODY, RB, NL>>
                    \o content_text.val \o options_text)
    IN  IF module_container.stale THEN Raise(StaleMsg)
        ELSE Assemble(<<module_container.title>>,
                      Join(<<NL>>, module_container.intros) \o <<NL, NL>>,
                      ModuleContent(module_container, module_name),
                      ModuleOptions(module_container))

\* lines 172-225: the body of the try
ModuleBody(container, module_name) ==
    LET With(found) == IF found.raised THEN found ELSE ModuleText(found.val, module_name)
    IN  With(FindModule(container, module_name))

MinContent == 20

\* the except branch without the length test of line 232
ModuleFallbackNoLength(container, module_name, e) ==
    LET Decide(alternative_content) ==
            IF alternative_content.raised THEN alternative_content
            ELSE IF alternative_content.val # <<>>
                 THEN Ok(<<module_name, NL>> \o alternative_content.val)
                 ELSE Ok(FailureLabel(<<module_name>>, e))
    IN  Decide(ExtractParagraphContainer(container, <<module_name>>))

\* lines 227-235: the except branch
ModuleFallback(container, module_name, e) ==
    LET Decide(alternative_content) ==
            IF alternative_content.raised THEN alternative_content
            ELSE IF /\ alternative_content.val # <<>>
                    /\ TextLen(Strip(alternative_content.val)) > MinContent
                 THEN Ok(<<module_name, NL>> \o alternative_content.val)
                 ELSE Ok(FailureLabel(<<module_name>>, e))
    IN  Decide(ExtractParagraphContainer(container, <<module_name>>))

\* lines 168-235
ExtractModule(container, module_name) ==
    LET Try(body) ==
            IF body.raised THEN ModuleFallback(container, module_name, body.val) ELSE body
    IN  Try(ModuleBody(container, module_name))

(***************************************************************************)
(* Pages given to the extractors.                                          *)
(***************************************************************************)
LongText == "a paragraph of more than twenty characters"
ParaTexts == {<<>>, <<"short">>, <<SP, LongText, SP>>}

Blocks ==
    {[hasP |-> FALSE, p |-> <<>>, input |-> FALSE],
     [hasP |-> TRUE, p |-> <<"short">>, input |-> TRUE],
     [hasP |-> TRUE, p |-> <<LongText>>, input |-> FALSE],
     [hasP |-> TRUE, p |-> <<>>, input |-> TRUE]}

StaleContainer == [textLeft |-> TRUE, stale |-> TRUE, blocks |-> <<>>, paras |-> <<>>]

ParaContainers ==
    {[textLeft |-> tl, stale |-> FALSE, blocks |-> <<>>, paras |-> ps] :
        tl \in BOOLEAN, ps \in SeqUpTo(ParaTexts, MaxParas)}
    \cup {[textLeft |-> tl, stale |-> FALSE, blocks |-> bs, paras |-> <<>>] :
        tl \in BOOLEAN, bs \in SeqUpTo(Blocks, MaxParas) \ {<<>>}}
    \cup {StaleContainer}

OptionalContainer == {<<>>} \cup {<<c>> : c \in ParaContainers}

PlainP == [html |-> <<POpen, "Directions", PClose>>, stale |-> FALSE]
BlankP ==
    [html |-> <<POpen, "The", SP, SpanMx, SpanGray, "2", "6", Dot, SpanEnd, InputAttr,
                SpanEnd, "of", SP, BOpen, "words", BClose, PClose>>,
     stale |-> FALSE]
StaleP == [html |-> <<>>, stale |-> TRUE]

NoContent == [present |-> FALSE, ps |-> <<>>]
Contents ==
    {NoContent}
    \cup {[present |-> TRUE, ps |-> ps] :
            ps \in {<<>>, <<PlainP>>, <<BlankP, PlainP>>, <<PlainP, StaleP>>}}

NoGrid == [present |-> FALSE, options |-> <<>>]
Grids ==
    {NoGrid, [present |-> TRUE, options |-> <<>>],
     [present |-> TRUE, options |-> <<<<"A)", SP, "apple">>, <<"B)", SP, "pear">>>>]}

Intros == {<<>>, <<<<"Directions:", SP, "read">>>>}

\* the headings and the grid of a module, a few combinations
ModuleFrames ==
    {<<in, g>> \in Intros \X Grids : in = <<>> <=> ~g.present \/ g.options = <<>>}

StaleModule(title) ==
    [title |-> title, stale |-> TRUE, intros |-> <<>>, content |-> NoContent,
     subs |-> <<>>, grid |-> NoGrid]

ModulesTitled(title) ==
    {[title |-> title, stale |-> FALSE, intros |-> f[1], content |-> c, subs |-> sb,
      grid |-> f[2]] : f \in ModuleFrames, c \in Contents, sb \in OptionalContainer}
    \cup {StaleModule(title)}

\* the roots of the extractor calls: at most one module, titled Section A
ExtractRoots ==
    {[mods |-> ms, loose |-> ls, stale |-> FALSE] :
        ms \in {<<>>} \cup {<<m>> : m \in ModulesTitled("Section A")},
        ls \in OptionalContainer}
    \cup {[mods |-> <<>>, loose |-> <<>>, stale |-> TRUE]}

ExtractTargets == {"Section A", "Part I Writing"}

ExtractInputs ==
    /\ ex_pc = "input"
    /\ ex_root \in ExtractRoots
    /\ ex_name = <<>>
    /\ ex_out = Ok(<<>>)

CallExtractModule ==
    /\ ex_pc = "input"
    /\ \E module_name \in ExtractTargets :
          /\ ex_name' = <<module_name>>
          /\ ex_out' = ExtractModule(ex_root, module_name)
    /\ ex_pc' = "module"
    /\ UNCHANGED ex_root

\* the sweep of the whole root (line 310)
CallSweepRoot ==
    /\ ex_pc = "input"
    /\ ex_name' = <<ADDITIONAL>>
    /\ ex_out' = ExtractParagraphContainer(ex_root, <<ADDITIONAL>>)
    /\ ex_pc' = "sweep_root"
    /\ UNCHANGED ex_root

\* the sweep of a module (line 205)
CallSweepModule ==
    /\ ex_pc = "input"
    /\ ex_root.mods # <<>>
    /\ ex_name' = <<ex_root.mods[1].title, CONTENT>>
    /\ ex_out' = ExtractParagraphContainer(ex_root.mods[1], <<ex_root.mods[1].title, CONTENT>>)
    /\ ex_pc' = "sweep_module"
    /\ UNCHANGED ex_root

NextExtract ==
    \/ CallExtractModule /\ UNCHANGED <<fvars, ovars>>
    \/ CallSweepRoot /\ UNCHANGED <<fvars, ovars>>
    \/ CallSweepModule /\ UNCHANGED <<fvars, ovars>>

InitExtract == ExtractInputs /\ IdleFill /\ IdleCrawl

SpecExtract == InitExtract /\ [][NextExtract]_vars

\* t is a failure label of that name: f"[{name} extraction failed: {e}]\n\n"
IsFailureLabel(t, name) ==
    /\ Len(t) = Len(name) + 6
    /\ t = FailureLabel(name, t[Len(name) + 3])

\* the element the sweep of the state was called on
SweptElement == IF ex_pc = "sweep_root" THEN ex_root ELSE ex_root.mods[1]

\* neither pattern of lines 100-111 matches a sub-container of the element
NoSubContainer(el) == ~el.stale /\ ParaContainersIn(el) = <<>>

(***************************************************************************)
(* C4, as claimed: _extract_paragraph_container on a container without     *)
(* any matching sub-container returns a "not found" marker text (a text    *)
(* that is not empty) and does not raise.                                  *)
(***************************************************************************)
SweepNotFoundMarker ==
    (ex_pc \in {"sweep_root", "sweep_module"} /\ NoSubContainer(SweptElement)) =>
        ~ex_out.raised /\ ex_out.val # <<>>

(***************************************************************************)
(* C4, amended: _extract_paragraph_container on a container without any    *)
(* matching sub-container returns the empty string and does not raise.     *)
(***************************************************************************)
SweepNotFoundEmpty ==
    (ex_pc \in {"sweep_root", "sweep_module"} /\ NoSubContainer(SweptElement)) =>
        ~ex_out.raised /\ ex_out.val = <<>>

\* the sweep has run on a module that has a title, a grid and headings but no
\* div.space-y-* at all
SweepNotFoundWitness ==
    /\ ex_pc = "sweep_module"
    /\ NoSubContainer(ex_root.mods[1])
    /\ ex_root.mods[1].grid.present
    /\ ex_out = Ok(<<>>)

\* no module of the root has the title
NoModuleTitled(root, name) == \A i \in 1..Len(root.mods) : root.mods[i].title # name

(***************************************************************************)
(* C5, as claimed: _extract_module on a root without a module of the       *)
(* target title returns the labeled failure string of that module name and *)
(* does not raise (here only for roots whose queries do not raise).        *)
(***************************************************************************)
ModuleNotFoundLabel ==
    (ex_pc = "module" /\ ~ex_root.stale /\ NoModuleTitled(ex_root, ex_name[1])) =>
        ~ex_out.raised /\ IsFailureLabel(ex_out.val, ex_name)

(***************************************************************************)
(* C5, amended: _extract_module on a root without a module of the target   *)
(* title does not raise and returns a text containing the module name:     *)
(* the module name, a newline and the text of the sweep of the whole root  *)
(* when that text has more than 20 characters once stripped, and the       *)
(* labeled failure string of the module name otherwise (so whenever the    *)
(* root has no div.space-y-* at all).                                      *)
(***************************************************************************)
ModuleNotFoundResult ==
    (ex_pc = "module" /\ NoModuleTitled(ex_root, ex_name[1])) =>
        LET sweep == ExtractParagraphContainer(ex_root, ex_name).val
        IN  /\ ~ex_out.raised
            /\ Contains(ex_out.val, ex_name)
            /\ IF TextLen(Strip(sweep)) > MinContent
               THEN ex_out.val = ex_name \o <<NL>> \o sweep /\ ~IsFailureLabel(ex_out.val, ex_name)
               ELSE ex_out.val = FailureLabel(ex_name, NoSuchElementMsg)
            /\ NoSubContainer(ex_root) => IsFailureLabel(ex_out.val, ex_name)

\* Part I Writing was asked of a root that holds only Section A, and the
\* sweep of the root found a long paragraph: the result is no failure label
ModuleNotFoundWitness ==
    /\ ex_pc = "module"
    /\ ex_name = <<"Part I Writing">>
    /\ ex_root.mods # <<>>
    /\ NoModuleTitled(ex_root, "Part I Writing")
    /\ Contains(ex_out.val, <<LongText>>)
    /\ ~IsFailureLabel(ex_out.val, ex_name)

\* the module of the title is found, and it has neither the classed content
\* container nor any paragraph sub-container
FoundButEmpty(root, name) ==
    /\ ~root.stale
    /\ root.mods # <<>>
    /\ root.mods[1].title = name
    /\ ~root.mods[1].stale
    /\ ~root.mods[1].content.present
    /\ root.mods[1].subs = <<>>

(***************************************************************************)
(* C10, as claimed: for a module that is found but has neither the content *)
(* container nor a paragraph sub-container, _extract_module returns the    *)
(* labeled failure string it returns when no module matches the title.     *)
(***************************************************************************)
FoundEmptyIsFailureLabel ==
    (ex_pc = "module" /\ FoundButEmpty(ex_root, ex_name[1])) =>
        IsFailureLabel(ex_out.val, ex_name)

(***************************************************************************)
(* C10, amended: for a module that is found but has neither the content    *)
(* container nor a paragraph sub-container, _extract_module returns the    *)
(* assembled module text (title, headings, the body heading with an empty  *)
(* body, the options if any), which is not the labeled failure string: the *)
(* two outcomes are told apart.                                            *)
(***************************************************************************)
FoundEmptyIsModuleText ==
    (ex_pc = "module" /\ FoundButEmpty(ex_root, ex_name[1])) =>
        LET m == ex_root.mods[1]
            options == IF m.grid.present
                       THEN <<LB, OPTIONS, RB, NL>> \o Join(<<NL>>, m.grid.options) \o <<NL, NL>>
                       ELSE <<>>
        IN  /\ ~ex_out.raised
            /\ ex_out.val = ex_name \o <<NL>> \o Join(<<NL>>, m.intros)
                            \o <<NL, NL, LB, BODY, RB, NL>> \o options
            /\ ~IsFailureLabel(ex_out.val, ex_name)
            /\ Count(FAILED, ex_out.val) = 0

\* Section A was found with headings and a grid but no body at all, while the
\* root holds paragraphs outside the module
FoundEmptyWitness ==
    /\ ex_pc = "module"
    /\ FoundButEmpty(ex_root, "Section A")
    /\ ex_name = <<"Section A">>
    /\ ex_root.mods[1].intros # <<>>
    /\ ex_root.loose # <<>>
    /\ Head(ex_out.val) = "Section A"

(***************************************************************************)
(* Paragraphs given to _process_fill_blank: a paragraph is a sequence of   *)
(* items, each a piece of markup.                                          *)
(*   rec        a numbered input of the form the pattern recognizes        *)
(*   unnumbered the same markup without digits before the dot              *)
(*   noattr     the same markup around an input tag without attributes     *)
(*   input      an input tag outside any span                              *)
(***************************************************************************)
ItemKinds == {"word", "space", "bold", "rec", "unnumbered", "noattr", "input"}
Numbers == {<<"3">>, <<"1", "2">>}
Items ==
    {[kind |-> k, num |-> <<>>] : k \in ItemKinds \ {"rec"}}
    \cup {[kind |-> "rec", num |-> n] : n \in Numbers}

ItemMarkup(it) ==
    CASE it.kind = "word" -> <<"word">>
      [] it.kind = "space" -> <<SP>>
      [] it.kind = "bold" -> <<BOpen, "bold", BClose>>
      [] it.kind = "rec" -> <<SpanMx, SpanGray>> \o it.num \o <<Dot, SpanEnd, InputAttr, SpanEnd>>
      [] it.kind = "unnumbered" -> <<SpanMx, SpanGray, Dot, SpanEnd, InputAttr, SpanEnd>>
      [] it.kind = "noattr" -> <<SpanMx, SpanGray, "7", Dot, SpanEnd, InputBare, SpanEnd>>
      [] it.kind = "input" -> <<InputAttr>>

\* the outerHTML of the <p> holding the items
ParagraphMarkup(items) ==
    <<POpen>> \o Concat([i \in 1..Len(items) |-> ItemMarkup(items[i])]) \o <<PClose>>

FillInputs ==
    /\ fb_pc = "input"
    /\ fb_items \in SeqUpTo(Items, MaxItems)
    /\ fb_out = Ok(<<>>)

CallProcessFillBlank ==
    /\ fb_pc = "input"
    /\ fb_out' = ProcessFillBlank([html |-> ParagraphMarkup(fb_items), stale |-> FALSE])
    /\ fb_pc' = "done"
    /\ UNCHANGED fb_items


NextFill == CallProcessFillBlank /\ UNCHANGED <<xvars, ovars>>

InitFill == FillInputs /\ IdleExtract /\ IdleCrawl

SpecFill == InitFill /\ [][NextFill]_vars

(***************************************************************************)
(* C6: _process_fill_blank on a paragraph with N recognized numbered       *)
(* inputs returns text with exactly N blank indicators, the k-th of them   *)
(* immediately preceded by the number of the k-th input and a dot, and     *)
(* with no markup tag; with N = 0 the result is the tag-stripped text of   *)
(* the paragraph.                                                          *)
(***************************************************************************)
IsRec(it) == it.kind = "rec"
RecNumbers(items) == LET r == SelectSeq(items, IsRec) IN [i \in 1..Len(r) |-> r[i].num]

\* the positions of the blank indicators of t, ascending
RECURSIVE BlankPositions(_, _)
BlankPositions(t, i) ==
    IF i > Len(t) THEN <<>>
    ELSE (IF t[i] = Blank THEN <<i>> ELSE <<>>) \o BlankPositions(t, i + 1)

FillBlankIndicators ==
    fb_pc = "done" =>
        LET out == fb_out.val
            nums == RecNumbers(fb_items)
            pos == BlankPositions(out, 1)
        IN  /\ ~fb_out.raised
            /\ Len(pos) = Len(nums)
            /\ \A k \in 1..Len(pos) :
                  LET want == nums[k] \o <<Dot>>
                  IN  /\ pos[k] > Len(want)
                      /\ SubSeq(out, pos[k] - Len(want), pos[k] - 1) = want
            /\ \A i \in 1..Len(out) : out[i] \notin Tags
            /\ nums = <<>> => out = Strip(GetText(ParagraphMarkup(fb_items)))

\* a paragraph with two recognized inputs, one of them of two digits, and an
\* input the pattern does not recognize, has been processed
FillBlankWitness ==
    /\ fb_pc = "done"
    /\ RecNumbers(fb_items) = <<<<"1", "2">>, <<"3">>>>
    /\ \E i \in 1..Len(fb_items) : fb_items[i].kind = "noattr"
    /\ Count(Blank, fb_out.val) = 2

(***************************************************************************)
(* crawl_single_paper                                                      *)
(***************************************************************************)
\* str(n) of a natural number: its decimal digits
DigitOf(d) ==
    CASE d = 0 -> "0" [] d = 1 -> "1" [] d = 2 -> "2" [] d = 3 -> "3" [] d = 4 -> "4"
      [] d = 5 -> "5" [] d = 6 -> "6" [] d = 7 -> "7" [] d = 8 -> "8" [] d = 9 -> "9"
RECURSIVE Str(_)
Str(n) == IF n < 10 THEN <<DigitOf(n)>> ELSE Str(n \div 10) \o <<DigitOf(n % 10)>>

\* the literals of the paths and of the header, written in ASCII
OutDir == "CET4-papers"             \* the output directory of line 327
YearMark == "(year)"                \* the character after the year
MonthMark == "(month)"              \* the character after the month
SetOpen == "-No."                   \* the two characters before the set index
SetClose == "(set)"                 \* the character after the set index
HeaderTitle == "CET4-paper("        \* the header's literal after the month mark
HeaderClose == ")"
Separator == "============================================================"

\* line 327: Path(f"<OutDir>/{year}<year>{month}<month>")
SaveDir(y, m) == <<OutDir, "/">> \o Str(y) \o <<YearMark>> \o Str(m) \o <<MonthMark>>

\* a file name without the set index
SavePathWithoutSet(y, m, sc) ==
    SaveDir(y, m) \o <<"/">> \o Str(y) \o <<YearMark>> \o Str(m) \o <<MonthMark, ".txt">>

\* line 329: save_dir / f"{year}<year>{month}<month>-No.{set_count}<set>.txt"
SavePath(y, m, sc) ==
    SaveDir(y, m) \o <<"/">> \o Str(y) \o <<YearMark>> \o Str(m) \o <<MonthMark, SetOpen>>
    \o Str(sc) \o <<SetClose, ".txt">>

\* the document with the sweep's fragment before the modules
FullPaperSweepFirst(y, m, sc, w, a, b, c, additional) ==
    Str(y) \o <<YearMark>> \o Str(m) \o <<MonthMark, HeaderTitle, SetOpen>> \o Str(sc)
    \o <<SetClose, HeaderClose, NL, Separator, NL>>
    \o additional \o <<NL>> \o w \o a \o b \o c \o <<NL>>

\* lines 320-324: the document
FullPaper(y, m, sc, w, a, b, c, additional) ==
    Str(y) \o <<YearMark>> \o Str(m) \o <<MonthMark, HeaderTitle, SetOpen>> \o Str(sc)
    \o <<SetClose, HeaderClose, NL, Separator, NL>>
    \o w \o a \o b \o c \o <<NL>> \o additional \o <<NL>>

\* lines 338-345 and line 365: the reports
SuccessReport(save_path) == [kind |-> "success", text |-> <<"success report:">> \o save_path]
FailureReport(e) == [kind |-> "failure", text |-> <<"crawl failed:", e>>]

LaunchMsg == "Message: unable to start chromedriver"
GetMsg == "Message: unknown error: net::ERR_CONNECTION_RESET"
TimeoutMsg == "Message: "
MkdirMsg == "[Errno 13] Permission denied (mkdir)"
OpenMsg == "[Errno 13] Permission denied (open)"
WriteMsg == "[Errno 28] No space left on device"

\* the requests of the runs
Requests == {<<2020, 12, 1>>, <<2020, 12, 2>>}

(***************************************************************************)
(* The pages the runs meet.                                                *)
(***************************************************************************)
TextLeftBlocks ==
    [textLeft |-> TRUE, stale |-> FALSE, paras |-> <<>>,
     blocks |-> <<[hasP |-> TRUE, p |-> <<"short">>, input |-> TRUE],
                  [hasP |-> FALSE, p |-> <<>>, input |-> FALSE],
                  [hasP |-> TRUE, p |-> <<LongText>>, input |-> FALSE]>>]
LooseParas ==
    [textLeft |-> FALSE, stale |-> FALSE, blocks |-> <<>>,
     paras |-> <<<<>>, <<SP, LongText, SP>>>>]
WordBank == [present |-> TRUE, options |-> <<<<"A)", SP, "apple">>, <<"B)", SP, "pear">>>>]
Directions == <<<<"Directions:", SP, "read">>>>

WritingModule ==
    [title |-> "Part I Writing", stale |-> FALSE, intros |-> Directions,
     content |-> [present |-> TRUE, ps |-> <<PlainP>>], subs |-> <<>>, grid |-> NoGrid]
SectionAModule ==
    [title |-> "Section A", stale |-> FALSE, intros |-> Directions,
     content |-> [present |-> TRUE, ps |-> <<BlankP, PlainP>>], subs |-> <<>>,
     grid |-> WordBank]
SectionBModule ==
    [title |-> "Section B", stale |-> FALSE, intros |-> <<>>, content |-> NoContent,
     subs |-> <<TextLeftBlocks>>, grid |-> NoGrid]
SectionCModule ==
    [title |-> "Section C", stale |-> FALSE, intros |-> <<>>,
     content |-> [present |-> TRUE, ps |-> <<PlainP>>], subs |-> <<>>, grid |-> NoGrid]
\* Section A found, with neither content container nor sub-container
EmptySectionA ==
    [title |-> "Section A", stale |-> FALSE, intros |-> <<>>, content |-> NoContent,
     subs |-> <<>>, grid |-> NoGrid]
\* Section A whose second paragraph is stale when the normalizer reads it
StaleParagraphSectionA ==
    [title |-> "Section A", stale |-> FALSE, intros |-> <<>>,
     content |-> [present |-> TRUE, ps |-> <<PlainP, StaleP>>], subs |-> <<>>,
     grid |-> [present |-> TRUE, options |-> <<>>]]
\* Section C without content container, whose sub-container is stale
StaleSubSectionC ==
    [title |-> "Section C", stale |-> FALSE, intros |-> <<>>, content |-> NoContent,
     subs |-> <<StaleContainer>>, grid |-> NoGrid]

Pages ==
    {\* the expanded page
     [mods |-> <<WritingModule, SectionAModule, SectionBModule, SectionCModule>>,
      loose |-> <<>>, stale |-> FALSE],
     \* the content did not expand: the container is empty
     EmptyRoot,
     \* one empty module, paragraphs outside the modules
     [mods |-> <<EmptySectionA>>, loose |-> <<LooseParas>>, stale |-> FALSE],
     \* elements going stale under the queries
     [mods |-> <<StaleParagraphSectionA, StaleModule("Section B"), StaleSubSectionC>>,
      loose |-> <<>>, stale |-> FALSE],
     \* the container itself is stale
     [mods |-> <<WritingModule>>, loose |-> <<>>, stale |-> TRUE]}

(***************************************************************************)
(* The steps of a call.                                                    *)
(***************************************************************************)
InitCrawl == IdleCrawl

\* lines 253-266: a call with its parameters
Start ==
    /\ pc \in {"idle", "returned"}
    /\ \E r \in Requests : year' = r[1] /\ month' = r[2] /\ set_count' = r[3]
    /\ driver' = "None"
    /\ full_container' = EmptyRoot
    /\ exc' = ""
    /\ result' = NoResult
    /\ additional_paragraphs' = <<>>
    /\ writing' = <<>>
    /\ section_a' = <<>>
    /\ section_b' = <<>>
    /\ section_c' = <<>>
    /\ quits' = 0
    /\ calls' = <<>>
    /\ log' = <<>>
    /\ opened' = "no"
    /\ pc' = "launch"
    /\ UNCHANGED <<fs, dirs, last, damaged>>

\* lines 268-272
Launch ==
    /\ pc = "launch"
    /\ driver' = "open"
    /\ pc' = "navigate"
    /\ UNCHANGED <<year, month, set_count, full_container, exc, result,
                   additional_paragraphs, writing, section_a, section_b, section_c,
                   quits, calls, log, opened, fs, dirs, last, damaged>>

\* line 271 raises: driver stays None
LaunchFails ==
    /\ pc = "launch"
    /\ exc' = LaunchMsg
    /\ pc' = "except"
    /\ UNCHANGED <<year, month, set_count, driver, full_container, result,
                   additional_paragraphs, writing, section_a, section_b, section_c,
                   quits, calls, log, opened, fs, dirs, last, damaged>>

\* lines 274-280
Navigate ==
    /\ pc = "navigate"
    /\ pc' = "click"
    /\ UNCHANGED <<locals, quits, calls, log, opened, fs, dirs, last, damaged>>

\* line 276 raises
NavigateFails ==
    /\ pc = "navigate"
    /\ exc' = GetMsg
    /\ pc' = "except"
    /\ UNCHANGED <<year, month, set_count, driver, full_container, result,
                   additional_paragraphs, writing, section_a, section_b, section_c,
                   quits, calls, log, opened, fs, dirs, last, damaged>>

\* lines 283-292, 297: the button is found and clicked
Click ==
    /\ pc = "click"
    /\ log' = Append(log, "click ok")
    /\ pc' = "locate"
    /\ UNCHANGED <<locals, quits, calls, opened, fs, dirs, last, damaged>>

\* the click without its try/except: the failure leaves the try block
ClickFailsAborts ==
    /\ pc = "click"
    /\ exc' = TimeoutMsg
    /\ pc' = "except"
    /\ UNCHANGED <<year, month, set_count, driver, full_container, result,
                   additional_paragraphs, writing, section_a, section_b, section_c,
                   quits, calls, log, opened, fs, dirs, last, damaged>>

\* lines 293-294, 297: the wait times out or the click raises
ClickFails ==
    /\ pc = "click"
    /\ log' = Append(log, "click failed")
    /\ pc' = "locate"
    /\ UNCHANGED <<locals, quits, calls, opened, fs, dirs, last, damaged>>

\* lines 300-306: the container is present
Locate ==
    /\ pc = "locate"
    /\ full_container' \in Pages
    /\ pc' = "sweep"
    /\ UNCHANGED <<year, month, set_count, driver, exc, result,
                   additional_paragraphs, writing, section_a, section_b, section_c,
                   quits, calls, log, opened, fs, dirs, last, damaged>>

\* line 301 raises TimeoutException
LocateTimeout ==
    /\ pc = "locate"
    /\ exc' = TimeoutMsg
    /\ pc' = "except"
    /\ UNCHANGED <<year, month, set_count, driver, full_container, result,
                   additional_paragraphs, writing, section_a, section_b, section_c,
                   quits, calls, log, opened, fs, dirs, last, damaged>>

\* _extract_writing .. _extract_section_c (lines 237-251)
ExtractWriting(container) == ExtractModule(container, "Part I Writing")
ExtractSectionA(container) == ExtractModule(container, "Section A")
ExtractSectionB(container) == ExtractModule(container, "Section B")
ExtractSectionC(container) == ExtractModule(container, "Section C")

\* One extraction statement of lines 310-317: the call r is made, its text is
\* assigned, and an exception leaves the try block.
Extraction(here, next, name, r) ==
    /\ pc = here
    /\ calls' = Append(calls, name)
    /\ IF r.raised
       THEN /\ exc' = r.val
            /\ pc' = "except"
            /\ UNCHANGED <<additional_paragraphs, writing, section_a, section_b, section_c>>
       ELSE /\ pc' = next
            /\ additional_paragraphs' = IF name = "additional" THEN r.val ELSE additional_paragraphs
            /\ writing' = IF name = "writing" THEN r.val ELSE writing
            /\ section_a' = IF name = "section_a" THEN r.val ELSE section_a
            /\ section_b' = IF name = "section_b" THEN r.val ELSE section_b
            /\ section_c' = IF name = "section_c" THEN r.val ELSE section_c
            /\ UNCHANGED exc
    /\ UNCHANGED <<year, month, set_count, driver, full_container, result,
                   quits, log, opened, fs, dirs, last, damaged>>

\* line 310
SweepStep ==
    Extraction("sweep", "writing", "additional",
               ExtractParagraphContainer(full_container, <<ADDITIONAL>>))
\* line 314
WritingStep == Extraction("writing", "section_a", "writing", ExtractWriting(full_container))
\* line 315
SectionAStep == Extraction("section_a", "section_b", "section_a", ExtractSectionA(full_container))
\* line 316
SectionBStep == Extraction("section_b", "section_c", "section_b", ExtractSectionB(full_container))
\* line 317
SectionCStep == Extraction("section_c", "write", "section_c", ExtractSectionC(full_container))

\* open(save_path, "w") and f.write(text): the file is created or replaced
WriteFile(files, save_path, text) ==
    [q \in DOMAIN files \cup {save_path} |-> IF q = save_path THEN text ELSE files[q]]

FileExistsMsg == "[Errno 17] File exists"

\* Path.mkdir(parents=True, exist_ok=...): an existing directory raises
\* FileExistsError unless exist_ok
PathMkdir(ds, dir, exist_ok) ==
    IF dir \in ds /\ ~exist_ok THEN Raise(FileExistsMsg) ELSE Ok(ds \cup {<<OutDir>>, dir})

\* line 328: save_dir.mkdir(parents=True, exist_ok=True)
Mkdir(ds, save_dir) == PathMkdir(ds, save_dir, TRUE)

\* lines 320-347: the document is assembled and written, the report returned
Write ==
    /\ pc = "write"
    /\ LET full_paper == FullPaper(year, month, set_count, writing, section_a, section_b,
                                   section_c, additional_paragraphs)
           save_dir == SaveDir(year, month)
           save_path == SavePath(year, month, set_count)
           made == Mkdir(dirs, save_dir)
       IN  IF made.raised
           THEN /\ exc' = made.val
                /\ pc' = "except"
                /\ UNCHANGED <<result, log, opened, fs, dirs, last, damaged>>
           ELSE /\ dirs' = made.val
                /\ log' = Append(log, "success")
                /\ opened' = IF save_path \in DOMAIN fs THEN "replaced" ELSE "created"
                /\ fs' = WriteFile(fs, save_path, full_paper)
                /\ result' = SuccessReport(save_path)
                /\ last' = WriteFile(last, <<year, month, set_count>>, full_paper)
                /\ damaged' = damaged \ {<<year, month, set_count>>}
                /\ pc' = "finally"
                /\ UNCHANGED exc
    /\ UNCHANGED <<year, month, set_count, driver, full_container,
                   additional_paragraphs, writing, section_a, section_b, section_c,
                   quits, calls>>

\* lines 327-332 raise: mkdir fails, or open fails, or the write fails after
\* open has truncated the file
WriteFails ==
    /\ pc = "write"
    /\ \E fault \in {"mkdir", "open", "write"} :
          LET save_path == SavePath(year, month, set_count)
          IN  /\ exc' = CASE fault = "mkdir" -> MkdirMsg
                          [] fault = "open" -> OpenMsg
                          [] fault = "write" -> WriteMsg
              /\ dirs' = IF fault = "mkdir" THEN dirs
                         ELSE dirs \cup {<<OutDir>>, SaveDir(year, month)}
              /\ fs' = IF fault = "write" THEN WriteFile(fs, save_path, <<>>) ELSE fs
              /\ opened' = IF fault # "write" THEN opened
                            ELSE IF save_path \in DOMAIN fs THEN "replaced" ELSE "created"
              /\ damaged' = IF fault = "write" THEN damaged \cup {<<year, month, set_count>>}
                            ELSE damaged
    /\ pc' = "except"
    /\ UNCHANGED <<year, month, set_count, driver, full_container, result,
                   additional_paragraphs, writing, section_a, section_b, section_c,
                   quits, calls, log, last>>

\* a handler that logs and re-raises instead of returning the report
ExceptReraises ==
    /\ pc = "except"
    /\ log' = Append(log, "error")
    /\ pc' = "finally"
    /\ UNCHANGED <<locals, quits, calls, opened, fs, dirs, last, damaged>>

\* lines 349-365: the failure is logged and the failure report returned
Except ==
    /\ pc = "except"
    /\ log' = Append(log, "error")
    /\ result' = FailureReport(exc)
    /\ pc' = "finally"
    /\ UNCHANGED <<year, month, set_count, driver, full_container, exc,
                   additional_paragraphs, writing, section_a, section_b, section_c,
                   quits, calls, opened, fs, dirs, last, damaged>>

\* driver.quit() at the end of the try block instead of in a finally
FinallyOnlyAfterSuccess ==
    /\ pc = "finally"
    /\ IF driver # "None" /\ result.kind = "success"
       THEN /\ driver' = "quit"
            /\ quits' = quits + 1
            /\ log' = Append(log, "closed")
       ELSE UNCHANGED <<driver, quits, log>>
    /\ pc' = "returned"
    /\ UNCHANGED <<year, month, set_count, full_container, exc, result,
                   additional_paragraphs, writing, section_a, section_b, section_c,
                   calls, opened, fs, dirs, last, damaged>>

\* lines 367-370: the session is closed when there is one, and the call returns
Finally ==
    /\ pc = "finally"
    /\ IF driver # "None"
       THEN /\ driver' = "quit"
            /\ quits' = quits + 1
            /\ log' = Append(log, "closed")
       ELSE UNCHANGED <<driver, quits, log>>
    /\ pc' = "returned"
    /\ UNCHANGED <<year, month, set_count, full_container, exc, result,
                   additional_paragraphs, writing, section_a, section_b, section_c,
                   calls, opened, fs, dirs, last, damaged>>

Next ==
    \/ Start /\ UNCHANGED <<fvars, xvars>>
    \/ Launch /\ UNCHANGED <<fvars, xvars>>
    \/ LaunchFails /\ UNCHANGED <<fvars, xvars>>
    \/ Navigate /\ UNCHANGED <<fvars, xvars>>
    \/ NavigateFails /\ UNCHANGED <<fvars, xvars>>
    \/ Click /\ UNCHANGED <<fvars, xvars>>
    \/ ClickFails /\ UNCHANGED <<fvars, xvars>>
    \/ Locate /\ UNCHANGED <<fvars, xvars>>
    \/ LocateTimeout /\ UNCHANGED <<fvars, xvars>>
    \/ SweepStep /\ UNCHANGED <<fvars, xvars>>
    \/ WritingStep /\ UNCHANGED <<fvars, xvars>>
    \/ SectionAStep /\ UNCHANGED <<fvars, xvars>>
    \/ SectionBStep /\ UNCHANGED <<fvars, xvars>>
    \/ SectionCStep /\ UNCHANGED <<fvars, xvars>>
    \/ Write /\ UNCHANGED <<fvars, xvars>>
    \/ WriteFails /\ UNCHANGED <<fvars, xvars>>
    \/ Except /\ UNCHANGED <<fvars, xvars>>
    \/ Finally /\ UNCHANGED <<fvars, xvars>>

Init == InitCrawl /\ IdleFill /\ IdleExtract

Spec == Init /\ [][Next]_vars

ExtractionOrder == <<"additional", "writing", "section_a", "section_b", "section_c">>
Launched == driver # "None"

(***************************************************************************)
(* C1: a call whose browser session was launched calls driver.quit()       *)
(* exactly once, in the finalization and not before, whatever the exit     *)
(* path; a call whose launch failed never calls it; either way the call    *)
(* returns a report.                                                       *)
(***************************************************************************)
SessionTornDownOnce ==
    /\ pc # "returned" => quits = 0 /\ driver # "quit"
    /\ pc = "returned" =>
          /\ result.kind \in {"success", "failure"}
          /\ IF Launched THEN quits = 1 /\ driver = "quit" ELSE quits = 0
          /\ exc = LaunchMsg <=> ~Launched

\* a call that failed while writing the output file has returned, its session
\* closed once
SessionTornDownWitness ==
    /\ pc = "returned"
    /\ exc = WriteMsg
    /\ result.kind = "failure"
    /\ quits = 1
    /\ driver = "quit"

(***************************************************************************)
(* C2: when the wait for the main content container times out, the call    *)
(* returns the failure report of the timeout, has made no extraction call, *)
(* has not opened the output file, and has closed the session.             *)
(***************************************************************************)
LocateTimeoutReported ==
    (exc = TimeoutMsg /\ pc \in {"finally", "returned"}) =>
        /\ result = FailureReport(TimeoutMsg)
        /\ calls = <<>>
        /\ opened = "no"
        /\ pc = "returned" => quits = 1 /\ driver = "quit"

\* a call has returned after the timeout, while an earlier call had written
\* the file of the same request
LocateTimeoutWitness ==
    /\ pc = "returned"
    /\ exc = TimeoutMsg
    /\ quits = 1
    /\ <<year, month, set_count>> \in DOMAIN last
    /\ fs[SavePath(year, month, set_count)] = last[<<year, month, set_count>>]

(***************************************************************************)
(* C3: the step in which the click on the reading button fails logs the    *)
(* failure and leaves the call at the container-locate stage, the session  *)
(* open, no exception pending and no report made: it does not abort.       *)
(***************************************************************************)
ClickFailureContinues ==
    [][ClickFails =>
          /\ pc' = "locate"
          /\ log' = Append(log, "click failed")
          /\ driver' = "open"
          /\ exc' = ""
          /\ result' = NoResult]_vars

\* a call whose click failed has reached the written file and the success report
ClickFailureWitness ==
    /\ pc = "returned"
    /\ "click failed" \in {log[i] : i \in 1..Len(log)}
    /\ result.kind = "success"
    /\ opened # "no"
    /\ Len(full_container.mods) = 4

(***************************************************************************)
(* C7: every output file is at the path of a request; the file at the path *)
(* of a request holds exactly the document of the last successful run of   *)
(* that request (unless a later run of it failed while writing), whatever  *)
(* runs of other requests came in between; and no run fails because the    *)
(* directory or the file already exists.                                   *)
(***************************************************************************)
OutputOverwritten ==
    /\ \A q \in DOMAIN fs : \E r \in Requests : q = SavePath(r[1], r[2], r[3])
    /\ \A r \in DOMAIN last \ damaged :
          /\ SavePath(r[1], r[2], r[3]) \in DOMAIN fs
          /\ fs[SavePath(r[1], r[2], r[3])] = last[r]
    /\ exc # FileExistsMsg
    /\ (pc = "finally" /\ result.kind = "success") =>
          fs[SavePath(year, month, set_count)]
             = FullPaper(year, month, set_count, writing, section_a, section_b, section_c,
                         additional_paragraphs)

\* a successful run has replaced the file an earlier run of the same request
\* had written, and the file of the other request holds another document
OutputOverwrittenWitness ==
    /\ pc = "returned"
    /\ result.kind = "success"
    /\ opened = "replaced"
    /\ DOMAIN last = Requests
    /\ damaged = {}
    /\ \E r \in Requests :
          /\ r # <<year, month, set_count>>
          /\ fs[SavePath(r[1], r[2], r[3])] = last[r]
          /\ Len(last[r]) # Len(last[<<year, month, set_count>>])

(***************************************************************************)
(* C8: once the container is located, the five extractions all run,        *)
(* whatever the page holds; the only failures left are those of the file   *)
(* write, and without one the call writes the file and returns the         *)
(* success report.                                                         *)
(***************************************************************************)
ExtractionNeverAborts ==
    (calls # <<>> /\ pc \in {"except", "finally", "returned"}) =>
        /\ calls = ExtractionOrder
        /\ exc \in {"", MkdirMsg, OpenMsg, WriteMsg}
        /\ (exc = "" /\ pc # "except") =>
              /\ result = SuccessReport(SavePath(year, month, set_count))
              /\ opened # "no"

\* a call has returned the success report on the page whose elements go stale
\* under the queries
ExtractionNeverAbortsWitness ==
    /\ pc = "returned"
    /\ result.kind = "success"
    /\ \E i \in 1..Len(full_container.mods) : full_container.mods[i].stale
    /\ Count(FAILED, section_c) = 1

(***************************************************************************)
(* C9: the extractions run in the order sweep, writing, Section A,         *)
(* Section B, Section C; the document of a successful run is the header,   *)
(* then the writing, Section A, Section B and Section C fragments, then    *)
(* the sweep's fragment, each once, whichever of them degraded.            *)
(***************************************************************************)
DocumentOrder ==
    /\ calls = SubSeq(ExtractionOrder, 1, Len(calls))
    /\ (pc \in {"finally", "returned"} /\ result.kind = "success") =>
          /\ calls = ExtractionOrder
          /\ fs[SavePath(year, month, set_count)] =
                Str(year) \o <<YearMark>> \o Str(month) \o <<MonthMark, HeaderTitle, SetOpen>>
                \o Str(set_count) \o <<SetClose, HeaderClose, NL, Separator, NL>>
                \o ExtractModule(full_container, "Part I Writing").val
                \o ExtractModule(full_container, "Section A").val
                \o ExtractModule(full_container, "Section B").val
                \o ExtractModule(full_container, "Section C").val
                \o <<NL>>
                \o ExtractParagraphContainer(full_container, <<ADDITIONAL>>).val
                \o <<NL>>

\* a successful run on a page where Section A was found and other modules
\* degraded to failure labels
DocumentOrderWitness ==
    /\ pc = "returned"
    /\ result.kind = "success"
    /\ Head(section_a) = "Section A"
    /\ Count(FAILED, writing) + Count(FAILED, section_b) + Count(FAILED, section_c) > 0
    /\ additional_paragraphs # <<>>

====
